---- MODULE Spec2Model ----
(***************************************************************************)
(* State-machine model of the LBP runtime module of kaupangdx              *)
(* (packages/chain/src/runtime/lbp/lbp.ts) together with the token        *)
(* registry it shares with the XYK runtime                                 *)
(* (packages/chain/src/runtime/token-registry.ts).                         *)
(*                                                                         *)
(* A runtime method runs all of its statements: an assert that fails       *)
(* records the first error message as the status of the transaction and    *)
(* the writes of a transaction whose status is false are discarded.        *)
(* UInt64 arithmetic asserts in the same way on underflow.                 *)
(***************************************************************************)
EXTENDS Integers, Sequences, FiniteSets, TLC

VARIABLES
  height,         \* this.network.block.height
  pools,          \* LBP.pools: PoolKey -> PoolLBP
  feeCollected,   \* LBP.feeCollected: FeeCollectorAssetKey -> UInt64
  lastTokenIdId,  \* TokenRegistry.lastTokenIdId
  tokenIds,       \* TokenRegistry.tokenIds: TokenIdId -> TokenId
  tokenIdList,    \* TokenRegistry.tokenIdList: TokenId -> TokenIdId
  balances,       \* Balances.balances: (tokenId, address) -> Balance
  sellCount,      \* number of sells committed so far
  migratedPools,  \* the keys of the pools migrated so far
  last,           \* the receipt of the last transaction
  probe           \* arguments and result of a direct call of a pure method

vars == <<height, pools, feeCollected, lastTokenIdId, tokenIds, tokenIdList,
          balances, sellCount, migratedPools, last, probe>>

chain == <<pools, feeCollected, lastTokenIdId, tokenIds, tokenIdList, balances>>

----------------------------------------------------------------------------
(* Program constants *)

MAX_WEIGHT == 100000000
MAX_SALE_DURATION == 1209600
RepayFee0 == 2
RepayFee1 == 10

(* Bounds of the model *)

MaxHeight == 4
MaxSells == 2
MaxProbeAmount == 12
MaxProbeFee == 4
MaxProbeX == 4
MaxProbeY == 3
MaxProbeReserve == 6

----------------------------------------------------------------------------
(* Fee schedule: lbp.ts, calculatePoolTradeFee *)

\* a variant that multiplies before it divides
calculatePoolTradeFeeMulFirst(amount, fee0, fee1) ==
  LET isZero == fee0 = 0 \/ fee1 = 0
      isAmount == fee1 = fee0
      paddedDivisor == IF isZero THEN 1 ELSE fee1
      amountCalculated == IF isZero THEN 0 ELSE (amount * fee0) \div paddedDivisor
  IN IF isAmount THEN amount ELSE amountCalculated

calculatePoolTradeFee(amount, fee0, fee1) ==
  LET isZero == fee0 = 0 \/ fee1 = 0
      isAmount == fee1 = fee0
      paddedDivisor == IF isZero THEN 1 ELSE fee1
      amountCalculated == IF isZero THEN 0 ELSE (amount \div paddedDivisor) * fee0
  IN IF isAmount THEN amount ELSE amountCalculated

----------------------------------------------------------------------------
(* Identities.  Token ids and addresses are field elements in the program; *)
(* the model numbers them: traded tokens 0..2, users 1 and 2, and the      *)
(* hash-derived keys as numbers that differ for different inputs.          *)

Tokens == {0, 1, 2}
Users == {1, 2, 3}

TokenPair(tokenAId, tokenBId) ==
  IF tokenAId > tokenBId THEN <<tokenAId, tokenBId>> ELSE <<tokenBId, tokenAId>>

PoolKey(pair) == 100 + 10 * pair[1] + pair[2]
LPTokenId(pair) == 100 + 10 * pair[1] + pair[2]
PoolKeyXyk(pair) == 200 + 10 * pair[1] + pair[2]
LPTokenIdXyk(pair) == 200 + 10 * pair[1] + pair[2]

FeeCollectorAssetKey(feeCollector, tokenAId) == <<feeCollector, tokenAId>>

Pairs == {TokenPair(a, b) : a \in Tokens, b \in Tokens}
\* no pool is created for a pair of equal tokens: no account and no token for it
DistinctPairs == {p \in Pairs : p[1] # p[2]}
PoolKeys == {PoolKey(p) : p \in DistinctPairs} \cup {PoolKeyXyk(p) : p \in DistinctPairs}
LPTokenIds == {LPTokenId(p) : p \in DistinctPairs} \cup {LPTokenIdXyk(p) : p \in DistinctPairs}
Accounts == Users \cup PoolKeys
\* traded tokens are held by users and pool accounts, liquidity tokens by users
BalanceKeys == (Tokens \X Accounts) \cup (LPTokenIds \X Users)

----------------------------------------------------------------------------
(* Balances *)

getBalance(bal, tokenId, address) == bal[<<tokenId, address>>]

\* Balances.transfer asserts that the sender's balance is sufficient
canTransfer(bal, tokenId, from, amount) == getBalance(bal, tokenId, from) >= amount

transfer(bal, tokenId, from, to, amount) ==
  LET debited == [bal EXCEPT ![<<tokenId, from>>] = @ - amount]
  IN [debited EXCEPT ![<<tokenId, to>>] = @ + amount]

mintAndIncrementSupply(bal, tokenId, to, amount) ==
  [bal EXCEPT ![<<tokenId, to>>] = @ + amount]

----------------------------------------------------------------------------
(* Token registry: token-registry.ts *)

tokenIdExist(list, tokenId) == tokenId \in DOMAIN list

\* a variant that never looks at the LBP liquidity token
addTokenPairSuccessXykOnly(list, tokenAId, tokenBId, isXyk, checkLbp) ==
  ~tokenIdExist(list, LPTokenIdXyk(TokenPair(tokenAId, tokenBId)))

\* the value addTokenPair returns
addTokenPairSuccess(list, tokenAId, tokenBId, isXyk, checkLbp) ==
  LET existXyk == tokenIdExist(list, LPTokenIdXyk(TokenPair(tokenAId, tokenBId)))
      existLbp == tokenIdExist(list, LPTokenId(TokenPair(tokenAId, tokenBId)))
  IN ~existXyk /\ ~(checkLbp /\ existLbp)

\* the token id addTokenPair writes
tokenIdToAdd(tokenAId, tokenBId, isXyk) ==
  IF isXyk THEN LPTokenIdXyk(TokenPair(tokenAId, tokenBId))
           ELSE LPTokenId(TokenPair(tokenAId, tokenBId))

\* a variant that writes only when it reports success
addTokenPairIfNew(reg, tokenAId, tokenBId, isXyk) ==
  LET nextTokenIdId == reg.lastTokenIdId + 1
      id == tokenIdToAdd(tokenAId, tokenBId, isXyk)
  IN IF ~addTokenPairSuccess(reg.tokenIdList, tokenAId, tokenBId, isXyk, TRUE) THEN reg
     ELSE [lastTokenIdId |-> nextTokenIdId,
           tokenIds |-> [i \in (DOMAIN reg.tokenIds) \cup {nextTokenIdId} |->
                           IF i = nextTokenIdId THEN id ELSE reg.tokenIds[i]],
           tokenIdList |-> [t \in (DOMAIN reg.tokenIdList) \cup {id} |->
                           IF t = id THEN nextTokenIdId ELSE reg.tokenIdList[t]]]

\* the three registry cells after addTokenPair: it writes whatever it returns
addTokenPair(reg, tokenAId, tokenBId, isXyk) ==
  LET nextTokenIdId == reg.lastTokenIdId + 1
      id == tokenIdToAdd(tokenAId, tokenBId, isXyk)
  IN [lastTokenIdId |-> nextTokenIdId,
      tokenIds |-> [i \in (DOMAIN reg.tokenIds) \cup {nextTokenIdId} |->
                      IF i = nextTokenIdId THEN id ELSE reg.tokenIds[i]],
      tokenIdList |-> [t \in (DOMAIN reg.tokenIdList) \cup {id} |->
                      IF t = id THEN nextTokenIdId ELSE reg.tokenIdList[t]]]

----------------------------------------------------------------------------
(* LBP: lbp.ts.  Every method comes as a pair: the status it ends with     *)
(* (the message of the first assertion that fails, "ok" if none does) and  *)
(* the values it computes.                                                 *)

ok == "ok"

poolExists(ps, poolKey) == poolKey \in DOMAIN ps

feeCollectedExists(fc, feeCollectorAssetKey) == feeCollectorAssetKey \in DOMAIN fc

\* a variant without the 2% floor
isValidWeightNoFloor(weight) == weight < MAX_WEIGHT

isValidWeight(weight) == weight >= MAX_WEIGHT \div 50 /\ weight < MAX_WEIGHT

\* a variant whose interval is open at both ends
isPoolRunningStrict(poolData, now) == poolData.start < now /\ poolData.end > now

isPoolRunning(poolData, now) == poolData.start <= now /\ poolData.end >= now

\* a variant without the assertion on the length of the interval
calculateLinearWeightStatusNoLength(startX, endX, startY, endY, at) ==
  LET poolEnded == endX < at
      poolNotStarted == at < startX
  IN IF poolEnded THEN "SaleIsNotRunning"
     ELSE IF poolNotStarted THEN "SaleIsNotRunning"
     ELSE ok

calculateLinearWeightStatus(startX, endX, startY, endY, at) ==
  LET poolEnded == endX < at
      poolNotStarted == at < startX
      endGreater == IF poolEnded THEN at ELSE endX
  IN IF poolEnded THEN "SaleIsNotRunning"
     ELSE IF poolNotStarted THEN "SaleIsNotRunning"
     ELSE IF endGreater < startX THEN "underflow"
     ELSE IF ~(endGreater - startX > 0) THEN "SaleIsNotRunning"
     ELSE ok

\* a variant that weighs the two ends the wrong way round
calculateLinearWeightReversed(startX, endX, startY, endY, at) ==
  LET poolEnded == endX < at
      poolNotStarted == at < startX
      endGreater == IF poolEnded THEN at ELSE endX
      atGreater == IF poolNotStarted THEN startX ELSE at
      dx == endGreater - startX
      paddedDivisor == IF ~(dx > 0) THEN 1 ELSE dx
  IN (startY * (atGreater - startX) + endY * (endGreater - at)) \div paddedDivisor

calculateLinearWeight(startX, endX, startY, endY, at) ==
  LET poolEnded == endX < at
      poolNotStarted == at < startX
      endGreater == IF poolEnded THEN at ELSE endX
      atGreater == IF poolNotStarted THEN startX ELSE at
      d1 == endGreater - at
      d2 == atGreater - startX
      dx == endGreater - startX
      dxGreaterThanZero == dx > 0
      paddedDivisor == IF ~dxGreaterThanZero THEN 1 ELSE dx
      leftPart == startY * d1
      rightPart == endY * d2
  IN (leftPart + rightPart) \div paddedDivisor

calculateTokenOutAmountFromReservesStatus(reserveIn, reserveOut, amountIn, weightIn, weightOut, start, end, now) ==
  LET denominator == reserveIn + amountIn
      weightStatus == calculateLinearWeightStatus(start, end, weightIn, weightOut, now)
      linearWeight == calculateLinearWeight(start, end, weightIn, weightOut, now)
  IN IF weightStatus # ok THEN weightStatus
     ELSE IF denominator = 0 THEN "denominator is zero"
     ELSE IF linearWeight > MAX_WEIGHT THEN "underflow"
     ELSE IF linearWeight = MAX_WEIGHT THEN "division by zero"
     ELSE ok

calculateTokenOutAmountFromReserves(reserveIn, reserveOut, amountIn, weightIn, weightOut, start, end, now) ==
  LET numerator == amountIn * reserveOut
      denominator == reserveIn + amountIn
      linearWeight == calculateLinearWeight(start, end, weightIn, weightOut, now)
      adjustedDenominator == IF denominator = 0 THEN 1 ELSE denominator
      amountOut == numerator \div adjustedDenominator
      weightOutRatio == MAX_WEIGHT - linearWeight
  IN (amountOut * linearWeight) \div weightOutRatio

calculateAmountInFromReservesStatus(reserveIn, reserveOut, amountOut) ==
  IF reserveOut < amountOut THEN "underflow"
  ELSE IF reserveOut - amountOut = 0 THEN "denominator is zero"
  ELSE ok

\* a variant that rounds the quotient up
calculateAmountInFromReservesCeil(reserveIn, reserveOut, amountOut) ==
  LET numerator == reserveIn * amountOut
      denominator == reserveOut - amountOut
      adjustedDenominator == IF denominator = 0 THEN 1 ELSE denominator
  IN (numerator + adjustedDenominator - 1) \div adjustedDenominator

calculateAmountInFromReserves(reserveIn, reserveOut, amountOut) ==
  LET numerator == reserveIn * amountOut
      denominator == reserveOut - amountOut
      adjustedDenominator == IF denominator = 0 THEN 1 ELSE denominator
  IN numerator \div adjustedDenominator

\* a variant that takes the initial weight whichever token comes in
weightInOfInitial(tokenIn, poolData) == poolData.initialWeight

weightInOf(tokenIn, poolData) ==
  IF tokenIn = poolData.assets.tokenAccumulatedId
    THEN poolData.initialWeight ELSE poolData.finalWeight

weightOutOf(tokenIn, poolData) ==
  IF tokenIn = poolData.assets.tokenAccumulatedId
    THEN poolData.finalWeight ELSE poolData.initialWeight

calculateTokenOutAmountStatus(bal, now, tokenIn, tokenOut, amountIn, poolData) ==
  LET pool == PoolKey(TokenPair(tokenIn, tokenOut))
  IN calculateTokenOutAmountFromReservesStatus(
       getBalance(bal, tokenIn, pool), getBalance(bal, tokenOut, pool), amountIn,
       weightInOf(tokenIn, poolData), weightOutOf(tokenIn, poolData),
       poolData.start, poolData.end, now)

calculateTokenOutAmount(bal, now, tokenIn, tokenOut, amountIn, poolData) ==
  LET pool == PoolKey(TokenPair(tokenIn, tokenOut))
  IN calculateTokenOutAmountFromReserves(
       getBalance(bal, tokenIn, pool), getBalance(bal, tokenOut, pool), amountIn,
       weightInOf(tokenIn, poolData), weightOutOf(tokenIn, poolData),
       poolData.start, poolData.end, now)

\* the value feeCollected.get(key).value: zero for a key never set
collectedOf(fc, poolData) ==
  LET key == FeeCollectorAssetKey(poolData.feeCollector, poolData.assets.tokenAccumulatedId)
  IN IF key \in DOMAIN fc THEN fc[key] ELSE 0

\* a variant that keeps the repay fee up to and including the target
isRepayFeeAppliedInclusive(fc, poolData) == collectedOf(fc, poolData) <= poolData.repayTarget

isRepayFeeApplied(fc, poolData) == collectedOf(fc, poolData) < poolData.repayTarget

defaultRepayFee == [fee0 |-> RepayFee0, fee1 |-> RepayFee1]

calculateFees(fc, pool, amount) ==
  LET fee == IF isRepayFeeApplied(fc, pool) THEN defaultRepayFee ELSE pool.fee
  IN calculatePoolTradeFee(amount, fee.fee0, fee.fee1)

----------------------------------------------------------------------------
(* createPool.  req holds the arguments of createPoolSigned and the sender. *)

\* a variant that only looks at the fee collector entry, not at the pool store
createPoolStatusNoPoolCheck(ps, fc, bal, now, req) ==
  LET feeCollectorAssetKey == FeeCollectorAssetKey(req.feeCollector, req.tokenAId)
  IN IF req.end < req.start THEN "underflow"
     ELSE IF req.tokenAId = req.tokenBId THEN "tokensNotDistinct"
     ELSE IF feeCollectedExists(fc, feeCollectorAssetKey)
       THEN "feeCollectorWithAssetAlreadyUsed"
     ELSE IF ~(now < req.start) THEN "InvalidBlockRange"
     ELSE IF ~(req.start < req.end) THEN "InvalidBlockRange"
     ELSE IF ~(req.end - req.start <= MAX_SALE_DURATION) THEN "MaxSaleDurationExceeded"
     ELSE IF ~isValidWeight(req.initialWeight) THEN "InvalidWeight"
     ELSE IF ~isValidWeight(req.finalWeight) THEN "InvalidWeight"
     ELSE IF ~(req.fee.fee1 > 0) THEN "FeeAmountInvalid"
     ELSE IF ~canTransfer(bal, req.tokenAId, req.creator, req.tokenAAmount)
       THEN "fromBalanceInsufficient"
     ELSE IF ~canTransfer(bal, req.tokenBId, req.creator, req.tokenBAmount)
       THEN "fromBalanceInsufficient"
     ELSE ok

createPoolStatus(ps, fc, bal, now, req) ==
  LET poolKey == PoolKey(TokenPair(req.tokenAId, req.tokenBId))
      feeCollectorAssetKey == FeeCollectorAssetKey(req.feeCollector, req.tokenAId)
  IN IF req.end < req.start THEN "underflow"
     ELSE IF req.tokenAId = req.tokenBId THEN "tokensNotDistinct"
     ELSE IF poolExists(ps, poolKey) THEN "poolAlreadyExists"
     ELSE IF feeCollectedExists(fc, feeCollectorAssetKey)
       THEN "feeCollectorWithAssetAlreadyUsed"
     ELSE IF ~(now < req.start) THEN "InvalidBlockRange"
     ELSE IF ~(req.start < req.end) THEN "InvalidBlockRange"
     ELSE IF ~(req.end - req.start <= MAX_SALE_DURATION) THEN "MaxSaleDurationExceeded"
     ELSE IF ~isValidWeight(req.initialWeight) THEN "InvalidWeight"
     ELSE IF ~isValidWeight(req.finalWeight) THEN "InvalidWeight"
     ELSE IF ~(req.fee.fee1 > 0) THEN "FeeAmountInvalid"
     ELSE IF ~canTransfer(bal, req.tokenAId, req.creator, req.tokenAAmount)
       THEN "fromBalanceInsufficient"
     ELSE IF ~canTransfer(bal, req.tokenBId, req.creator, req.tokenBAmount)
       THEN "fromBalanceInsufficient"
     ELSE ok

initialLPTokenSupply(req) ==
  IF req.tokenAId > req.tokenBId THEN req.tokenAAmount ELSE req.tokenBAmount

\* a variant that stores the assets in the canonical order of the pair
poolLBPCanonical(req) ==
  [owner |-> req.creator, start |-> req.start, end |-> req.end,
   assets |-> [tokenAccumulatedId |-> TokenPair(req.tokenAId, req.tokenBId)[1],
               tokenSoldId |-> TokenPair(req.tokenAId, req.tokenBId)[2]],
   initialWeight |-> req.initialWeight, finalWeight |-> req.finalWeight,
   fee |-> req.fee, feeCollector |-> req.feeCollector,
   repayTarget |-> req.repayTarget]

poolLBP(req) ==
  [owner |-> req.creator, start |-> req.start, end |-> req.end,
   assets |-> [tokenAccumulatedId |-> req.tokenAId, tokenSoldId |-> req.tokenBId],
   initialWeight |-> req.initialWeight, finalWeight |-> req.finalWeight,
   fee |-> req.fee, feeCollector |-> req.feeCollector,
   repayTarget |-> req.repayTarget]

\* a variant that mints the first traded token instead of the liquidity token
createPoolMintsTraded(st, req) ==
  LET tokenPair == TokenPair(req.tokenAId, req.tokenBId)
      poolKey == PoolKey(tokenPair)
      feeCollectorAssetKey == FeeCollectorAssetKey(req.feeCollector, req.tokenAId)
      balA == transfer(st.balances, req.tokenAId, req.creator, poolKey, req.tokenAAmount)
      balB == transfer(balA, req.tokenBId, req.creator, poolKey, req.tokenBAmount)
      reg == addTokenPair([lastTokenIdId |-> st.lastTokenIdId, tokenIds |-> st.tokenIds,
                           tokenIdList |-> st.tokenIdList],
                          req.tokenAId, req.tokenBId, FALSE)
  IN [pools |-> [k \in (DOMAIN st.pools) \cup {poolKey} |->
                   IF k = poolKey THEN poolLBP(req) ELSE st.pools[k]],
      feeCollected |-> [k \in (DOMAIN st.feeCollected) \cup {feeCollectorAssetKey} |->
                   IF k = feeCollectorAssetKey THEN 0 ELSE st.feeCollected[k]],
      lastTokenIdId |-> reg.lastTokenIdId,
      tokenIds |-> reg.tokenIds,
      tokenIdList |-> reg.tokenIdList,
      balances |-> mintAndIncrementSupply(balB, req.tokenAId, req.creator,
                                          initialLPTokenSupply(req))]

\* the state createPool writes; st is the record of the six state cells
createPool(st, req) ==
  LET tokenPair == TokenPair(req.tokenAId, req.tokenBId)
      poolKey == PoolKey(tokenPair)
      feeCollectorAssetKey == FeeCollectorAssetKey(req.feeCollector, req.tokenAId)
      balA == transfer(st.balances, req.tokenAId, req.creator, poolKey, req.tokenAAmount)
      balB == transfer(balA, req.tokenBId, req.creator, poolKey, req.tokenBAmount)
      reg == addTokenPair([lastTokenIdId |-> st.lastTokenIdId, tokenIds |-> st.tokenIds,
                           tokenIdList |-> st.tokenIdList],
                          req.tokenAId, req.tokenBId, FALSE)
  IN [pools |-> [k \in (DOMAIN st.pools) \cup {poolKey} |->
                   IF k = poolKey THEN poolLBP(req) ELSE st.pools[k]],
      feeCollected |-> [k \in (DOMAIN st.feeCollected) \cup {feeCollectorAssetKey} |->
                   IF k = feeCollectorAssetKey THEN 0 ELSE st.feeCollected[k]],
      lastTokenIdId |-> reg.lastTokenIdId,
      tokenIds |-> reg.tokenIds,
      tokenIdList |-> reg.tokenIdList,
      balances |-> mintAndIncrementSupply(balB, LPTokenId(tokenPair), req.creator,
                                          initialLPTokenSupply(req))]

----------------------------------------------------------------------------
(* sellPath.  req holds the arguments of sellPathSigned and the sender.    *)

\* the values sellPath computes for a pool that exists
sellPathValues(ps, fc, bal, now, req) ==
  LET initialPoolKey == PoolKey(TokenPair(req.tokenIn, req.tokenOut))
      poolData == ps[initialPoolKey]
      calculatedAmountOut ==
        calculateTokenOutAmount(bal, now, req.tokenIn, req.tokenOut, req.amountIn, poolData)
      feeAsset == poolData.assets.tokenAccumulatedId
      feeOnIn == feeAsset = req.tokenIn
      feeAmount == IF feeOnIn THEN calculateFees(fc, poolData, req.amountIn)
                              ELSE calculateFees(fc, poolData, calculatedAmountOut)
  IN [initialPoolKey |-> initialPoolKey,
      poolData |-> poolData,
      calculatedAmountOut |-> calculatedAmountOut,
      feeAsset |-> feeAsset,
      feeAmount |-> feeAmount,
      \* both subtractions are evaluated, the selected one is the amount out
      subIn |-> req.amountIn - feeAmount,
      subOut |-> calculatedAmountOut - feeAmount,
      amountOut |-> IF feeOnIn THEN req.amountIn - feeAmount
                               ELSE calculatedAmountOut - feeAmount,
      feeCollector |-> poolData.feeCollector,
      feePayer |-> IF feeOnIn THEN req.seller ELSE initialPoolKey,
      currentCollected |-> collectedOf(fc, poolData)]

newTotalReplaced(currentCollected, feeAmount) == feeAmount

newTotal(currentCollected, feeAmount) == currentCollected + feeAmount

\* a variant that always takes the fee from the seller
sellPathFeeTransferFromSeller(bal, v, seller) ==
  transfer(bal, v.feeAsset, seller, v.feeCollector, v.feeAmount)

\* paid the fees to fee collector
sellPathFeeTransfer(bal, v, seller) ==
  transfer(bal, v.feeAsset, v.feePayer, v.feeCollector, v.feeAmount)

\* a variant that pays the output to the fee collector instead of the seller
sellPathTokenOutTransferToCollector(bal, v, req) ==
  transfer(bal, req.tokenOut, v.initialPoolKey, v.feeCollector, v.amountOut)

\* transfer token out from the pool to the user
sellPathTokenOutTransfer(bal, v, req) ==
  transfer(bal, req.tokenOut, v.initialPoolKey, req.seller, v.amountOut)

\* a variant that looks the pool up under the tokens in the order given
sellPathStatusArgumentOrder(ps, fc, bal, now, req) ==
  IF ~poolExists(ps, PoolKey(<<req.tokenIn, req.tokenOut>>))
    THEN "poolDoesNotExist"
  ELSE IF ~isPoolRunning(ps[PoolKey(TokenPair(req.tokenIn, req.tokenOut))], now)
    THEN "SaleIsNotRunning"
  ELSE
    LET poolData == ps[PoolKey(TokenPair(req.tokenIn, req.tokenOut))]
        outStatus == calculateTokenOutAmountStatus(bal, now, req.tokenIn, req.tokenOut,
                                                   req.amountIn, poolData)
        v == sellPathValues(ps, fc, bal, now, req)
        bal1 == sellPathFeeTransfer(bal, v, req.seller)
        bal2 == transfer(bal1, req.tokenIn, req.seller, v.initialPoolKey, req.amountIn)
    IN IF outStatus # ok THEN outStatus
       ELSE IF v.subIn < 0 THEN "underflow"
       ELSE IF v.subOut < 0 THEN "underflow"
       ELSE IF ~(v.amountOut >= req.amountOutMinLimit) THEN "amountOutIsInsufficient"
       ELSE IF ~canTransfer(bal, v.feeAsset, v.feePayer, v.feeAmount)
         THEN "fromBalanceInsufficient"
       ELSE IF ~canTransfer(bal1, req.tokenIn, req.seller, req.amountIn)
         THEN "fromBalanceInsufficient"
       ELSE IF ~canTransfer(bal2, req.tokenOut, v.initialPoolKey, v.amountOut)
         THEN "fromBalanceInsufficient"
       ELSE ok

\* a variant that lets a sale go on after its end
sellPathStatusAfterEnd(ps, fc, bal, now, req) ==
  IF ~poolExists(ps, PoolKey(TokenPair(req.tokenIn, req.tokenOut)))
    THEN "poolDoesNotExist"
  ELSE IF now < ps[PoolKey(TokenPair(req.tokenIn, req.tokenOut))].start
    THEN "SaleIsNotRunning"
  ELSE
    LET poolData == ps[PoolKey(TokenPair(req.tokenIn, req.tokenOut))]
        outStatus == calculateTokenOutAmountStatus(bal, now, req.tokenIn, req.tokenOut,
                                                   req.amountIn, poolData)
        v == sellPathValues(ps, fc, bal, now, req)
        bal1 == sellPathFeeTransfer(bal, v, req.seller)
        bal2 == transfer(bal1, req.tokenIn, req.seller, v.initialPoolKey, req.amountIn)
    IN IF outStatus \notin {ok, "SaleIsNotRunning"} THEN outStatus
       ELSE IF v.subIn < 0 THEN "underflow"
       ELSE IF v.subOut < 0 THEN "underflow"
       ELSE IF ~(v.amountOut >= req.amountOutMinLimit) THEN "amountOutIsInsufficient"
       ELSE IF ~canTransfer(bal, v.feeAsset, v.feePayer, v.feeAmount)
         THEN "fromBalanceInsufficient"
       ELSE IF ~canTransfer(bal1, req.tokenIn, req.seller, req.amountIn)
         THEN "fromBalanceInsufficient"
       ELSE IF ~canTransfer(bal2, req.tokenOut, v.initialPoolKey, v.amountOut)
         THEN "fromBalanceInsufficient"
       ELSE ok

sellPathStatus(ps, fc, bal, now, req) ==
  IF ~poolExists(ps, PoolKey(TokenPair(req.tokenIn, req.tokenOut)))
    THEN "poolDoesNotExist"
  ELSE IF ~isPoolRunning(ps[PoolKey(TokenPair(req.tokenIn, req.tokenOut))], now)
    THEN "SaleIsNotRunning"
  ELSE
    LET poolData == ps[PoolKey(TokenPair(req.tokenIn, req.tokenOut))]
        outStatus == calculateTokenOutAmountStatus(bal, now, req.tokenIn, req.tokenOut,
                                                   req.amountIn, poolData)
        v == sellPathValues(ps, fc, bal, now, req)
        bal1 == sellPathFeeTransfer(bal, v, req.seller)
        bal2 == transfer(bal1, req.tokenIn, req.seller, v.initialPoolKey, req.amountIn)
    IN IF outStatus # ok THEN outStatus
       ELSE IF v.subIn < 0 THEN "underflow"
       ELSE IF v.subOut < 0 THEN "underflow"
       ELSE IF ~(v.amountOut >= req.amountOutMinLimit) THEN "amountOutIsInsufficient"
       ELSE IF ~canTransfer(bal, v.feeAsset, v.feePayer, v.feeAmount)
         THEN "fromBalanceInsufficient"
       ELSE IF ~canTransfer(bal1, req.tokenIn, req.seller, req.amountIn)
         THEN "fromBalanceInsufficient"
       ELSE IF ~canTransfer(bal2, req.tokenOut, v.initialPoolKey, v.amountOut)
         THEN "fromBalanceInsufficient"
       ELSE ok

\* a variant that also makes the seller the owner of the pool
sellPathTakesPool(st, now, req) ==
  LET v == sellPathValues(st.pools, st.feeCollected, st.balances, now, req)
      feeCollectorAssetKey == FeeCollectorAssetKey(v.feeCollector, v.feeAsset)
      bal1 == sellPathFeeTransfer(st.balances, v, req.seller)
      bal2 == transfer(bal1, req.tokenIn, req.seller, v.initialPoolKey, req.amountIn)
      bal3 == sellPathTokenOutTransfer(bal2, v, req)
  IN [st EXCEPT
        !.pools = [st.pools EXCEPT ![v.initialPoolKey].owner = req.seller],
        !.feeCollected = [k \in (DOMAIN st.feeCollected) \cup {feeCollectorAssetKey} |->
                            IF k = feeCollectorAssetKey
                              THEN newTotal(v.currentCollected, v.feeAmount)
                              ELSE st.feeCollected[k]],
        !.balances = bal3]

\* the state sellPath writes for a pool that exists
sellPath(st, now, req) ==
  LET v == sellPathValues(st.pools, st.feeCollected, st.balances, now, req)
      feeCollectorAssetKey == FeeCollectorAssetKey(v.feeCollector, v.feeAsset)
      bal1 == sellPathFeeTransfer(st.balances, v, req.seller)
      bal2 == transfer(bal1, req.tokenIn, req.seller, v.initialPoolKey, req.amountIn)
      bal3 == sellPathTokenOutTransfer(bal2, v, req)
  IN [st EXCEPT
        !.feeCollected = [k \in (DOMAIN st.feeCollected) \cup {feeCollectorAssetKey} |->
                            IF k = feeCollectorAssetKey
                              THEN newTotal(v.currentCollected, v.feeAmount)
                              ELSE st.feeCollected[k]],
        !.balances = bal3]

----------------------------------------------------------------------------
(* XYK.createPool, the sibling runtime: registers the pair's XYK liquidity *)
(* token with the LBP check on and asserts the registry's answer.          *)

xykCreatePoolStatus(list, bal, req) ==
  IF req.tokenAId = req.tokenBId THEN "tokensNotDistinct"
  ELSE IF tokenIdExist(list, LPTokenId(TokenPair(req.tokenAId, req.tokenBId)))
    THEN "poolLbpAlreadyExists"
  ELSE IF ~addTokenPairSuccess(list, req.tokenAId, req.tokenBId, TRUE, TRUE)
    THEN "poolAlreadyExists"
  ELSE IF ~canTransfer(bal, req.tokenAId, req.creator, req.tokenAAmount)
    THEN "fromBalanceInsufficient"
  ELSE IF ~canTransfer(bal, req.tokenBId, req.creator, req.tokenBAmount)
    THEN "fromBalanceInsufficient"
  ELSE ok

xykCreatePool(st, req) ==
  LET tokenPair == TokenPair(req.tokenAId, req.tokenBId)
      poolKey == PoolKeyXyk(tokenPair)
      balA == transfer(st.balances, req.tokenAId, req.creator, poolKey, req.tokenAAmount)
      balB == transfer(balA, req.tokenBId, req.creator, poolKey, req.tokenBAmount)
      reg == addTokenPair([lastTokenIdId |-> st.lastTokenIdId, tokenIds |-> st.tokenIds,
                           tokenIdList |-> st.tokenIdList],
                          req.tokenAId, req.tokenBId, TRUE)
  IN [st EXCEPT !.lastTokenIdId = reg.lastTokenIdId,
                !.tokenIds = reg.tokenIds,
                !.tokenIdList = reg.tokenIdList,
                !.balances = mintAndIncrementSupply(balB, LPTokenIdXyk(tokenPair),
                                                    req.creator, req.tokenAAmount)]

----------------------------------------------------------------------------
(* migratePool: once the sale has ended anyone moves what the pool account *)
(* holds of both tokens to the constant-product pool of the same pair; the *)
(* pool record stays.                                                      *)

\* a variant without the check of the reserves
migratePoolStatusNoReserveCheck(ps, bal, now, req) ==
  LET poolKey == PoolKey(TokenPair(req.tokenAId, req.tokenBId))
  IN IF ~poolExists(ps, poolKey) THEN "poolDoesNotExist"
     ELSE IF ~(now > ps[poolKey].end) THEN "poolNotEnd"
     ELSE ok

\* a variant that lets a pool be migrated in its last block
migratePoolStatusAtEnd(ps, bal, now, req) ==
  LET poolKey == PoolKey(TokenPair(req.tokenAId, req.tokenBId))
  IN IF ~poolExists(ps, poolKey) THEN "poolDoesNotExist"
     ELSE IF ~(now >= ps[poolKey].end) THEN "poolNotEnd"
     ELSE IF getBalance(bal, req.tokenAId, poolKey) = 0
             \/ getBalance(bal, req.tokenBId, poolKey) = 0 THEN "poolEmpty"
     ELSE ok

migratePoolStatus(ps, bal, now, req) ==
  LET poolKey == PoolKey(TokenPair(req.tokenAId, req.tokenBId))
  IN IF ~poolExists(ps, poolKey) THEN "poolDoesNotExist"
     ELSE IF ~(now > ps[poolKey].end) THEN "poolNotEnd"
     ELSE IF getBalance(bal, req.tokenAId, poolKey) = 0
             \/ getBalance(bal, req.tokenBId, poolKey) = 0 THEN "poolEmpty"
     ELSE ok

\* a variant that leaves one unit of the second token in the pool account
migratePoolLeavesDust(st, req) ==
  LET tokenPair == TokenPair(req.tokenAId, req.tokenBId)
      poolKey == PoolKey(tokenPair)
      reserveA == getBalance(st.balances, req.tokenAId, poolKey)
      reserveB == getBalance(st.balances, req.tokenBId, poolKey)
      balA == transfer(st.balances, req.tokenAId, poolKey, PoolKeyXyk(tokenPair), reserveA)
      balB == transfer(balA, req.tokenBId, poolKey, PoolKeyXyk(tokenPair), reserveB - 1)
  IN [st EXCEPT !.balances = balB]

migratePool(st, req) ==
  LET tokenPair == TokenPair(req.tokenAId, req.tokenBId)
      poolKey == PoolKey(tokenPair)
      reserveA == getBalance(st.balances, req.tokenAId, poolKey)
      reserveB == getBalance(st.balances, req.tokenBId, poolKey)
      balA == transfer(st.balances, req.tokenAId, poolKey, PoolKeyXyk(tokenPair), reserveA)
      balB == transfer(balA, req.tokenBId, poolKey, PoolKeyXyk(tokenPair), reserveB)
  IN [st EXCEPT !.balances = balB]

----------------------------------------------------------------------------
(* The runtime: the writes of a method are kept iff its status is true.    *)

\* a variant in which the output-limit assertion does not fail the transaction
runtimeMethodKeepsWrites(status, written, before) ==
  IF status \in {ok, "amountOutIsInsufficient"} THEN written ELSE before

runtimeMethod(status, written, before) == IF status = ok THEN written ELSE before

----------------------------------------------------------------------------
(* Requests *)

InitialDrip == 12

\* user 1 creates pools, user 2 trades and creates XYK pools, user 3 collects fees
Creators == {1}
Sellers == {2}
Funded == {1, 2}

TokenArgs == {<<0, 1>>, <<1, 0>>, <<0, 0>>, <<0, 2>>}

BaseCreate ==
  [creator |-> 1, tokenAId |-> 0, tokenBId |-> 1,
   tokenAAmount |-> InitialDrip, tokenBAmount |-> InitialDrip,
   start |-> 1, end |-> 3,
   initialWeight |-> 80000000, finalWeight |-> 20000000,
   fee |-> [fee0 |-> 1, fee1 |-> 2],
   feeCollector |-> 3, repayTarget |-> 1]

CreateRequests ==
  {[BaseCreate EXCEPT !.tokenAId = ab[1], !.tokenBId = ab[2]] : ab \in TokenArgs}
  \cup {[BaseCreate EXCEPT !.tokenAId = ab[1], !.tokenBId = ab[2], !.tokenBAmount = 4] :
      ab \in {<<0, 1>>, <<2, 1>>}}
  \cup {[BaseCreate EXCEPT !.repayTarget = 0]}
  \cup {[BaseCreate EXCEPT !.end = e] : e \in {0, 1, MAX_SALE_DURATION + 2}}
  \cup {[BaseCreate EXCEPT !.tokenBId = 2, !.end = 0]}
  \cup {[BaseCreate EXCEPT !.initialWeight = w] : w \in {1999999, 100000000}}
  \cup {[BaseCreate EXCEPT !.finalWeight = 100000000]}
  \cup {[BaseCreate EXCEPT !.fee = f] :
      f \in {[fee0 |-> 3, fee1 |-> 2], [fee0 |-> 0, fee1 |-> 2], [fee0 |-> 1, fee1 |-> 0]}}

\* (tokenIn, tokenOut) and (amountIn, amountOutMinLimit) of the sells
SellTokens == {<<0, 1>>, <<1, 0>>, <<0, 2>>, <<2, 1>>}

SellAmounts == {<<4, 0>>, <<10, 0>>, <<10, 9>>}

SellRequests ==
  {[seller |-> s, tokenIn |-> io[1], tokenOut |-> io[2],
    amountIn |-> am[1], amountOutMinLimit |-> am[2]] :
      s \in Sellers, io \in SellTokens, am \in SellAmounts}

XykRequests ==
  [creator : {2}, tokenAId : {0}, tokenBId : {0, 1},
   tokenAAmount : {1}, tokenBAmount : {1}]

MigrateRequests ==
  [sender : {2}, tokenAId : {0, 1}, tokenBId : {1, 2}]

----------------------------------------------------------------------------
(* The state machine *)

state == [pools |-> pools, feeCollected |-> feeCollected,
          lastTokenIdId |-> lastTokenIdId, tokenIds |-> tokenIds,
          tokenIdList |-> tokenIdList, balances |-> balances]

noProbe == [method |-> "none", args |-> <<>>, status |-> "none", result |-> 0]

receipt(method, status, sender, tokenA, tokenB) ==
  [method |-> method, status |-> status,
   sender |-> IF status = ok THEN sender ELSE 0,
   tokenA |-> IF status = ok THEN tokenA ELSE 0,
   tokenB |-> IF status = ok THEN tokenB ELSE 0,
   amountIn |-> 0, calculatedAmountOut |-> 0, feeAmount |-> 0, amountOut |-> 0,
   currentCollected |-> 0, registrySuccess |-> TRUE,
   tokenAAmount |-> 0, tokenBAmount |-> 0]

noTx == receipt("none", ok, 0, 0, 0)

commit(status, written) ==
  LET kept == runtimeMethod(status, written, state)
  IN /\ pools' = kept.pools
     /\ feeCollected' = kept.feeCollected
     /\ lastTokenIdId' = kept.lastTokenIdId
     /\ tokenIds' = kept.tokenIds
     /\ tokenIdList' = kept.tokenIdList
     /\ balances' = kept.balances

Init ==
  /\ height = 0
  /\ pools = <<>>
  /\ feeCollected = <<>>
  /\ lastTokenIdId = 0
  /\ tokenIds = <<>>
  /\ tokenIdList = <<>>
  /\ balances = [k \in BalanceKeys |->
                   IF k[1] \in Tokens /\ k[2] \in Funded THEN InitialDrip ELSE 0]
  /\ sellCount = 0
  /\ last = noTx
  /\ probe = noProbe
  /\ migratedPools = {}

\* the transaction that calls createPool with the arguments req
createPoolTx(req) ==
  LET status == createPoolStatus(pools, feeCollected, balances, height, req)
  IN /\ commit(status, createPool(state, req))
     /\ last' = [receipt("createPool", status, req.creator, req.tokenAId, req.tokenBId)
                   EXCEPT !.registrySuccess =
                     addTokenPairSuccess(tokenIdList, req.tokenAId, req.tokenBId,
                                         FALSE, TRUE),
                          !.tokenAAmount = IF status = ok THEN req.tokenAAmount ELSE 0,
                          !.tokenBAmount = IF status = ok THEN req.tokenBAmount ELSE 0]
     /\ UNCHANGED <<height, sellCount, migratedPools, probe>>

createPoolSigned == \E req \in CreateRequests : createPoolTx(req)

\* the transaction that calls sellPath with the arguments req
sellPathTx(req) ==
  LET status == sellPathStatus(pools, feeCollected, balances, height, req)
      v == sellPathValues(pools, feeCollected, balances, height, req)
      r == receipt("sellPath", status, req.seller, req.tokenIn, req.tokenOut)
  IN /\ sellCount < MaxSells
     /\ commit(status, sellPath(state, height, req))
     /\ sellCount' = IF status = ok THEN sellCount + 1 ELSE sellCount
     /\ last' = IF status = ok
                  THEN [r EXCEPT !.amountIn = req.amountIn,
                                 !.calculatedAmountOut = v.calculatedAmountOut,
                                 !.feeAmount = v.feeAmount,
                                 !.amountOut = v.amountOut,
                                 !.currentCollected = v.currentCollected]
                  ELSE r
     /\ UNCHANGED <<height, migratedPools, probe>>

sellPathSigned == \E req \in SellRequests : sellPathTx(req)

xykCreatePoolSigned ==
  \E req \in XykRequests :
    LET status == xykCreatePoolStatus(tokenIdList, balances, req)
    IN /\ commit(status, xykCreatePool(state, req))
       /\ last' = receipt("xykCreatePool", status, req.creator, req.tokenAId, req.tokenBId)
       /\ UNCHANGED <<height, sellCount, migratedPools, probe>>

migratePoolSigned ==
  \E req \in MigrateRequests :
    LET status == migratePoolStatus(pools, balances, height, req)
    IN /\ commit(status, migratePool(state, req))
       /\ last' = receipt("migratePool", status, req.sender, req.tokenAId, req.tokenBId)
       /\ migratedPools' = IF status = ok
                              THEN migratedPools
                                     \cup {PoolKey(TokenPair(req.tokenAId, req.tokenBId))}
                              ELSE migratedPools
       /\ UNCHANGED <<height, sellCount, probe>>

produceBlock ==
  /\ height < MaxHeight
  /\ height' = height + 1
  /\ last' = noTx
  /\ UNCHANGED <<chain, sellCount, migratedPools, probe>>

Next ==
  \/ createPoolSigned
  \/ sellPathSigned
  \/ xykCreatePoolSigned
  \/ migratePoolSigned
  \/ produceBlock

Spec == Init /\ [][Next]_vars

----------------------------------------------------------------------------
(* Direct calls of calculatePoolTradeFee, as the fee test makes them *)

InitFee ==
  /\ Init!1 /\ Init!2 /\ Init!3 /\ Init!4 /\ Init!5 /\ Init!6 /\ Init!7 /\ Init!8
  /\ Init!9 /\ Init!11
  /\ probe \in {[method |-> "calculatePoolTradeFee", args |-> <<amount, fee0, fee1>>,
                 status |-> "pending", result |-> 0] :
                  amount \in 0..MaxProbeAmount, fee0 \in 0..MaxProbeFee,
                  fee1 \in 0..MaxProbeFee}

callCalculatePoolTradeFee ==
  /\ probe.method = "calculatePoolTradeFee"
  /\ probe.status = "pending"
  /\ probe' = [probe EXCEPT !.status = ok,
                 !.result = calculatePoolTradeFee(probe.args[1], probe.args[2],
                                                  probe.args[3])]
  /\ UNCHANGED <<height, chain, sellCount, migratedPools, last>>

NextFee == callCalculatePoolTradeFee

SpecFee == InitFee /\ [][NextFee]_vars

feeCalled == probe.method = "calculatePoolTradeFee" /\ probe.status = ok

\* C5: calculatePoolTradeFee(amount, n, d) returns 0 whenever n = 0 or d = 0,
\* for every amount, also when n and d are both 0.
C5_ZeroFeeReturnsZero ==
  feeCalled /\ (probe.args[2] = 0 \/ probe.args[3] = 0) => probe.result = 0

\* C6: for n > 0 and d > 0, calculatePoolTradeFee(amount, n, d) is amount when
\* n = d and floor(amount / d) * n otherwise: the division comes first.
C6_DivideBeforeMultiply ==
  feeCalled /\ probe.args[2] > 0 /\ probe.args[3] > 0 =>
    probe.result = IF probe.args[2] = probe.args[3]
                     THEN probe.args[1]
                     ELSE (probe.args[1] \div probe.args[3]) * probe.args[2]

\* a call whose result differs from floor(amount * n / d)
C6_Witness ==
  /\ feeCalled
  /\ probe.args[2] > 0 /\ probe.args[3] > 0 /\ probe.args[2] # probe.args[3]
  /\ probe.result # (probe.args[1] * probe.args[2]) \div probe.args[3]

----------------------------------------------------------------------------
(* Pool creation *)

\* C1: once a pool exists for an unordered pair, every createPool for that
\* pair, in either argument order and whatever its other arguments are,
\* fails with poolAlreadyExists; the pool store holds at most one record per
\* unordered pair.
C1_DuplicateCreateFailsWithPoolAlreadyExists ==
  /\ \A req \in CreateRequests :
       poolExists(pools, PoolKey(TokenPair(req.tokenAId, req.tokenBId))) =>
         createPoolStatus(pools, feeCollected, balances, height, req)
           = "poolAlreadyExists"
  /\ \A k1 \in DOMAIN pools : \A k2 \in DOMAIN pools :
       {pools[k1].assets.tokenAccumulatedId, pools[k1].assets.tokenSoldId}
         = {pools[k2].assets.tokenAccumulatedId, pools[k2].assets.tokenSoldId}
       => k1 = k2

\* C2: a createPool for which the token registry reports a collision fails
\* as a whole.
C2_RegistryCollisionFailsCreate ==
  last.method = "createPool" /\ ~last.registrySuccess => last.status # ok

----------------------------------------------------------------------------
(* Atomicity *)

C3_WitnessCreate ==
  last.method = "createPool" /\ last.status = "fromBalanceInsufficient"

C3_WitnessMigrate ==
  last.method = "migratePool" /\ last.status = "poolEmpty"

----------------------------------------------------------------------------
(* Sale window *)

sellsOnExistingPool ==
  {req \in SellRequests :
     poolExists(pools, PoolKey(TokenPair(req.tokenIn, req.tokenOut)))}

\* C4: a sell on an existing pool fails with SaleIsNotRunning when the height
\* is below the pool's start or above its end; at height = start and at
\* height = end the running check passes and the sell succeeds unless a
\* balance or the minimum is insufficient.
C4_SaleWindowInclusive ==
  \A req \in sellsOnExistingPool :
    LET poolData == pools[PoolKey(TokenPair(req.tokenIn, req.tokenOut))]
        status == sellPathStatus(pools, feeCollected, balances, height, req)
    IN /\ (height < poolData.start \/ height > poolData.end)
            => status = "SaleIsNotRunning"
       /\ (height = poolData.start \/ height = poolData.end)
            => status \in {ok, "amountOutIsInsufficient", "fromBalanceInsufficient"}

\* a sell that succeeded at exactly the end of the window
C4_Witness ==
  /\ last.method = "sellPath" /\ last.status = ok
  /\ poolExists(pools, PoolKey(TokenPair(last.tokenA, last.tokenB)))
  /\ height = pools[PoolKey(TokenPair(last.tokenA, last.tokenB))].end

\* a sell that succeeded at exactly the start of the window
C4_WitnessStart ==
  /\ last.method = "sellPath" /\ last.status = ok
  /\ poolExists(pools, PoolKey(TokenPair(last.tokenA, last.tokenB)))
  /\ height = pools[PoolKey(TokenPair(last.tokenA, last.tokenB))].start

----------------------------------------------------------------------------
(* Fees of a sell.  After a successful sell, last holds its arguments and   *)
(* the amounts it computed.                                                *)

sold == last.method = "sellPath" /\ last.status = ok

soldPoolKey == PoolKey(TokenPair(last.tokenA, last.tokenB))

soldPool == pools[soldPoolKey]

soldFeeOnIn == soldPool.assets.tokenAccumulatedId = last.tokenA

\* the amount the fee of the last sell is charged on
soldFeeBase == IF soldFeeOnIn THEN last.amountIn ELSE last.calculatedAmountOut

soldBoosted == calculatePoolTradeFee(soldFeeBase, 2, 10)

soldConfigured ==
  calculatePoolTradeFee(soldFeeBase, soldPool.fee.fee0, soldPool.fee.fee1)

\* C7: once the fee collected for a pool's (feeCollector, accumulating asset)
\* has reached repayTarget it stays there, and every sell on the pool from
\* then on is charged the pool's configured fee.
C7_FeeSwitchIsOneWay ==
  [][\A k \in DOMAIN pools :
       ~isRepayFeeApplied(feeCollected, pools[k]) =>
         /\ k \in DOMAIN pools'
         /\ pools'[k] = pools[k]
         /\ ~isRepayFeeApplied(feeCollected', pools'[k])
         /\ (last'.method = "sellPath" /\ last'.status = ok
             /\ PoolKey(TokenPair(last'.tokenA, last'.tokenB)) = k)
            => last'.feeAmount =
                 calculatePoolTradeFee(
                   IF pools[k].assets.tokenAccumulatedId = last'.tokenA
                     THEN last'.amountIn ELSE last'.calculatedAmountOut,
                   pools[k].fee.fee0, pools[k].fee.fee1)]_vars

\* a sell on a pool that had reached its positive target, charged an amount
\* the boosted schedule would not have charged
C7_Witness ==
  /\ sold
  /\ soldPool.repayTarget > 0
  /\ last.currentCollected >= soldPool.repayTarget
  /\ last.feeAmount = soldConfigured
  /\ last.feeAmount # soldBoosted

\* C8: the schedule of a sell is chosen from the fee collected before it:
\* boosted 2/10 iff that amount is strictly below repayTarget, configured
\* otherwise; the whole fee of the sell is charged on that schedule and added
\* to the collected amount.
C8_ScheduleFromPreSellCollected ==
  sold =>
    /\ last.feeAmount = IF last.currentCollected < soldPool.repayTarget
                          THEN soldBoosted ELSE soldConfigured
    /\ collectedOf(feeCollected, soldPool) = last.currentCollected + last.feeAmount

\* the sell that crosses the target, charged at the boosted rate
C8_Witness ==
  /\ sold
  /\ last.currentCollected < soldPool.repayTarget
  /\ last.currentCollected + last.feeAmount >= soldPool.repayTarget
  /\ last.feeAmount = soldBoosted
  /\ last.feeAmount # soldConfigured

\* a sell on a pool whose target is 0, charged at the configured rate
C8_WitnessZeroTarget ==
  /\ sold
  /\ soldPool.repayTarget = 0
  /\ last.feeAmount = soldConfigured
  /\ last.feeAmount # soldBoosted

\* C9: the fee of a successful sell is in the accumulating asset.  If tokenIn
\* is the accumulating asset it is calculateFees(pool, amountIn) and goes
\* from the seller to the fee collector; otherwise it is
\* calculateFees(pool, calculatedAmountOut) and goes from the pool account
\* to the fee collector, the seller receiving calculatedAmountOut less the fee.
C9_FeeInAccumulatingAsset ==
  [][(last'.method = "sellPath" /\ last'.status = ok) =>
       LET k == PoolKey(TokenPair(last'.tokenA, last'.tokenB))
           pool == pools[k]
           acc == pool.assets.tokenAccumulatedId
           seller == last'.sender
           fee == last'.feeAmount
           delta(address) == getBalance(balances', acc, address)
                               - getBalance(balances, acc, address)
       IN /\ delta(pool.feeCollector) = fee
          /\ IF acc = last'.tokenA
               THEN /\ fee = calculateFees(feeCollected, pool, last'.amountIn)
                    /\ delta(seller) = 0 - last'.amountIn - fee
                    /\ delta(k) = last'.amountIn
               ELSE /\ fee = calculateFees(feeCollected, pool, last'.calculatedAmountOut)
                    /\ delta(k) = 0 - last'.calculatedAmountOut
                    /\ delta(seller) = last'.calculatedAmountOut - fee
                    /\ last'.amountOut = last'.calculatedAmountOut - fee]_vars

\* a sell of the sold token with a positive fee, paid by the pool
C9_Witness ==
  /\ sold
  /\ ~soldFeeOnIn
  /\ last.feeAmount > 0
  /\ getBalance(balances, soldPool.assets.tokenAccumulatedId, soldPool.feeCollector)
       >= last.feeAmount

\* a sell of the accumulating token with a positive fee, paid by the seller
C9_WitnessIn ==
  /\ sold
  /\ soldFeeOnIn
  /\ last.feeAmount > 0

\* C10: the amount of tokenOut a successful sell pays to the seller is the
\* price-curve output less the fee and never exceeds calculatedAmountOut,
\* whichever side the fee is charged on.
C10_AmountOutWithinCurveOutput ==
  sold =>
    /\ last.amountOut = last.calculatedAmountOut - last.feeAmount
    /\ last.amountOut <= last.calculatedAmountOut

----------------------------------------------------------------------------
(* Balances moved by a sell *)

\* C11: a successful sell whose tokenIn is the pool's sold asset takes
\* exactly amountIn of tokenIn from the seller and gives it to the pool
\* account, takes calculatedAmountOut of tokenOut from the pool account, and
\* gives calculatedAmountOut - fee of it to the seller and fee to the fee
\* collector; calculatedAmountOut and fee are those of the state before.
C11_SellOfSoldAssetMovesExactAmounts ==
  [][(last'.method = "sellPath" /\ last'.status = ok
      /\ pools[PoolKey(TokenPair(last'.tokenA, last'.tokenB))].assets.tokenSoldId
           = last'.tokenA) =>
       LET tokenIn == last'.tokenA
           tokenOut == last'.tokenB
           k == PoolKey(TokenPair(tokenIn, tokenOut))
           pool == pools[k]
           seller == last'.sender
           calc == calculateTokenOutAmount(balances, height, tokenIn, tokenOut,
                                           last'.amountIn, pool)
           fee == calculateFees(feeCollected, pool, calc)
           delta(tokenId, address) == getBalance(balances', tokenId, address)
                                        - getBalance(balances, tokenId, address)
       IN /\ delta(tokenIn, seller) = 0 - last'.amountIn
          /\ delta(tokenOut, seller) = calc - fee
          /\ delta(tokenOut, pool.feeCollector) = fee
          /\ delta(tokenIn, pool.feeCollector) = 0
          /\ delta(tokenIn, k) = last'.amountIn
          /\ delta(tokenOut, k) = 0 - calc]_vars

\* a sell of the sold asset that paid a positive fee and a positive amount
C11_Witness ==
  /\ sold
  /\ soldPool.assets.tokenSoldId = last.tokenA
  /\ last.feeAmount > 0
  /\ last.amountOut > 0
  /\ last.amountOut = last.calculatedAmountOut - last.feeAmount

----------------------------------------------------------------------------
(* Direct calls of getLinearWeight, as the linear weight test makes them *)

InitWeight ==
  /\ Init!1 /\ Init!2 /\ Init!3 /\ Init!4 /\ Init!5 /\ Init!6 /\ Init!7 /\ Init!8
  /\ Init!9 /\ Init!11
  /\ probe \in {[method |-> "getLinearWeight",
                 args |-> <<startX, endX, startY, endY, at>>,
                 status |-> "pending", result |-> 0] :
                  startX \in 0..MaxProbeX, endX \in 0..MaxProbeX,
                  startY \in 0..MaxProbeY, endY \in 0..MaxProbeY,
                  at \in 0..MaxProbeX}

getLinearWeight ==
  /\ probe.method = "getLinearWeight"
  /\ probe.status = "pending"
  /\ probe' = [probe EXCEPT
                 !.status = calculateLinearWeightStatus(probe.args[1], probe.args[2],
                              probe.args[3], probe.args[4], probe.args[5]),
                 !.result = calculateLinearWeight(probe.args[1], probe.args[2],
                              probe.args[3], probe.args[4], probe.args[5])]
  /\ UNCHANGED <<height, chain, sellCount, migratedPools, last>>

NextWeight == getLinearWeight

SpecWeight == InitWeight /\ [][NextWeight]_vars

weightCalled == probe.method = "getLinearWeight" /\ probe.status # "pending"

startX == probe.args[1]

endX == probe.args[2]

startY == probe.args[3]

endY == probe.args[4]

at == probe.args[5]

\* C12: for startX < endX calculateLinearWeight returns startY at at = startX,
\* endY at at = endX and floor((startY + endY) / 2) at the midpoint of an
\* interval of even length, for decreasing and increasing weights alike.
C12_LinearWeightAtEndsAndMidpoint ==
  weightCalled /\ startX < endX =>
    /\ at = startX => probe.status = ok /\ probe.result = startY
    /\ at = endX => probe.status = ok /\ probe.result = endY
    /\ 2 * at = startX + endX =>
         probe.status = ok /\ probe.result = (startY + endY) \div 2

\* a midpoint call with decreasing weights whose mean is truncated
C12_Witness ==
  /\ weightCalled /\ startX < endX
  /\ 2 * at = startX + endX
  /\ startY > endY
  /\ (startY + endY) % 2 = 1
  /\ probe.result = (startY + endY) \div 2

\* a midpoint call with increasing weights
C12_WitnessIncreasing ==
  /\ weightCalled /\ startX < endX
  /\ 2 * at = startX + endX
  /\ startY < endY
  /\ probe.result = (startY + endY) \div 2

\* C13: calculateLinearWeight clamps its evaluation point and does not fail:
\* for at < startX it returns startY, the value at startX, and for at > endX
\* it returns endY, the value at endX.
C13_LinearWeightClamps ==
  weightCalled /\ startX < endX =>
    /\ at < startX => probe.status = ok /\ probe.result = startY
    /\ at > endX => probe.status = ok /\ probe.result = endY

\* C14: calculateLinearWeight fails with SaleIsNotRunning for every input
\* with endX <= startX, whatever at is; the call is evaluated to its end, so
\* its division is by a non-zero number.
C14_EmptyIntervalFails ==
  weightCalled /\ endX <= startX =>
    /\ probe.status = "SaleIsNotRunning"
    /\ probe.result \in Int

\* a call on an interval of length 0 at its only point
C14_Witness ==
  /\ weightCalled
  /\ endX = startX /\ at = startX
  /\ probe.status = "SaleIsNotRunning"

----------------------------------------------------------------------------
(* Pool records *)

\* C15: every record of the pool store has start < end,
\* end - start <= MAX_SALE_DURATION = 1209600 and both weights in
\* [MAX_WEIGHT / 50, MAX_WEIGHT) = [2000000, 100000000), and was stored at a
\* block height strictly below its start.
C15_StoredPoolsAreValid ==
  [][\A k \in DOMAIN pools' :
       /\ pools'[k].start < pools'[k].end
       /\ pools'[k].end - pools'[k].start <= 1209600
       /\ pools'[k].initialWeight >= 2000000 /\ pools'[k].initialWeight < 100000000
       /\ pools'[k].finalWeight >= 2000000 /\ pools'[k].finalWeight < 100000000
       /\ k \notin DOMAIN pools =>
            height < pools'[k].start /\ ~isPoolRunning(pools'[k], height)]_vars

\* a pool just stored, before its start
C15_Witness ==
  /\ last.method = "createPool" /\ last.status = ok
  /\ poolExists(pools, PoolKey(TokenPair(last.tokenA, last.tokenB)))
  /\ height < pools[PoolKey(TokenPair(last.tokenA, last.tokenB))].start

\* creations refused for their window, their duration and their weights
C15_WitnessDuration ==
  last.method = "createPool" /\ last.status = "MaxSaleDurationExceeded"

C15_WitnessWeight ==
  last.method = "createPool" /\ last.status = "InvalidWeight"

C15_WitnessRange ==
  last.method = "createPool" /\ last.status = "InvalidBlockRange"

\* C16: createPool fails with FeeAmountInvalid whenever the numerator of the
\* fee (fee0, the component calculatePoolTradeFee multiplies by) is 0, so
\* every stored record has fee.fee0 > 0.
C16_StoredFeeNumeratorPositive ==
  /\ \A req \in CreateRequests :
       req.fee.fee0 = 0 =>
         createPoolStatus(pools, feeCollected, balances, height, req) # ok
  /\ \A k \in DOMAIN pools : pools[k].fee.fee0 > 0

\* the pools that collect their fees under a key of the fee-collected map
poolsOfKey(key) ==
  {k \in DOMAIN pools :
     FeeCollectorAssetKey(pools[k].feeCollector, pools[k].assets.tokenAccumulatedId)
       = key}

\* C17: a createPool for a new pair of distinct tokens fails with
\* feeCollectorWithAssetAlreadyUsed when the key (feeCollector, tokenA)
\* already has a fee-collected entry; no two pools of the store share their
\* (feeCollector, accumulating asset), and every entry belongs to one pool.
C17_FeeCollectorAssetKeyUnique ==
  /\ \A req \in CreateRequests :
       (/\ feeCollectedExists(feeCollected,
                              FeeCollectorAssetKey(req.feeCollector, req.tokenAId))
        /\ req.tokenAId # req.tokenBId
        /\ ~poolExists(pools, PoolKey(TokenPair(req.tokenAId, req.tokenBId))))
       => createPoolStatus(pools, feeCollected, balances, height, req)
            = "feeCollectorWithAssetAlreadyUsed"
  /\ \A key \in DOMAIN feeCollected : Cardinality(poolsOfKey(key)) = 1

\* the part of C17 about the store: one pool per fee-collected entry
C17_OnePoolPerEntry ==
  \A key \in DOMAIN feeCollected : Cardinality(poolsOfKey(key)) = 1

\* C18: a stored pool record is never changed or deleted: every sell,
\* successful or failed, every migration and every createPool leaves each
\* record of the store with all its fields as they were.
C18_PoolRecordsAreImmutable ==
  [][\A k \in DOMAIN pools : k \in DOMAIN pools' /\ pools'[k] = pools[k]]_vars

\* a pool that has been traded on and then migrated, with a second pool for
\* another pair stored beside it
C18_Witness ==
  /\ last.method = "migratePool" /\ last.status = ok
  /\ sellCount > 0
  /\ Cardinality(DOMAIN pools) > 1

----------------------------------------------------------------------------
(* Effects of a successful createPool.  After it, last holds the creator,   *)
(* the two token ids and the two amounts of the request.                   *)

created == last.method = "createPool" /\ last.status = ok

createdPoolKey == PoolKey(TokenPair(last.tokenA, last.tokenB))

\* C19: a successful createPool moves exactly amountA of tokenA and amountB
\* of tokenB from the creator to the pool account, stores under a new key a
\* record owned by the creator with accumulating = tokenA and sold = tokenB
\* in the order of the arguments, and sets the fee-collected entry of
\* (feeCollector, tokenA) to 0.
C19_CreatePoolEffects ==
  [][(last'.method = "createPool" /\ last'.status = ok) =>
       LET tokenA == last'.tokenA
           tokenB == last'.tokenB
           creator == last'.sender
           k == PoolKey(TokenPair(tokenA, tokenB))
           delta(tokenId, address) == getBalance(balances', tokenId, address)
                                        - getBalance(balances, tokenId, address)
       IN /\ delta(tokenA, creator) = 0 - last'.tokenAAmount
          /\ delta(tokenB, creator) = 0 - last'.tokenBAmount
          /\ delta(tokenA, k) = last'.tokenAAmount
          /\ delta(tokenB, k) = last'.tokenBAmount
          /\ k \notin DOMAIN pools /\ k \in DOMAIN pools'
          /\ pools'[k].owner = creator
          /\ pools'[k].assets = [tokenAccumulatedId |-> tokenA, tokenSoldId |-> tokenB]
          /\ <<pools'[k].feeCollector, tokenA>> \notin DOMAIN feeCollected
          /\ feeCollected'[<<pools'[k].feeCollector, tokenA>>] = 0]_vars

\* a pool created with its tokens given against the canonical order of the
\* pair and with two different amounts
C19_Witness ==
  /\ created
  /\ TokenPair(last.tokenA, last.tokenB) # <<last.tokenA, last.tokenB>>
  /\ last.tokenAAmount # last.tokenBAmount
  /\ pools[createdPoolKey].assets.tokenAccumulatedId = last.tokenA
  /\ getBalance(balances, last.tokenB, createdPoolKey) = last.tokenBAmount

\* C20: a successful createPool mints exactly max(amountA, amountB) of the
\* liquidity token of the pair to the creator, whatever the token ids and
\* the amounts are.
C20_MintsMaxOfAmounts ==
  created =>
    getBalance(balances, LPTokenId(TokenPair(last.tokenA, last.tokenB)), last.sender)
      = IF last.tokenAAmount > last.tokenBAmount
          THEN last.tokenAAmount ELSE last.tokenBAmount

----------------------------------------------------------------------------
(* The output limit of a sell *)

\* C21: a sell on a running pool whose net output amountOut is smaller than
\* amountOutMinLimit fails with amountOutIsInsufficient and changes no
\* balance and no fee-collected entry; a sell succeeds only if
\* amountOut >= amountOutMinLimit.
C21_InsufficientOutputFails ==
  \A req \in sellsOnExistingPool :
    LET poolData == pools[PoolKey(TokenPair(req.tokenIn, req.tokenOut))]
        status == sellPathStatus(pools, feeCollected, balances, height, req)
        outStatus == calculateTokenOutAmountStatus(balances, height, req.tokenIn,
                                                   req.tokenOut, req.amountIn, poolData)
        v == sellPathValues(pools, feeCollected, balances, height, req)
        kept == runtimeMethod(status, sellPath(state, height, req), state)
    IN (isPoolRunning(poolData, height) /\ outStatus = ok /\ v.amountOut >= 0) =>
         /\ v.amountOut < req.amountOutMinLimit =>
              /\ status = "amountOutIsInsufficient"
              /\ kept.balances = balances
              /\ kept.feeCollected = feeCollected
         /\ status = ok => v.amountOut >= req.amountOutMinLimit

----------------------------------------------------------------------------
(* Addressing of a pool *)

\* the key of the record createPool stored for the unordered pair {x, y}
createdKeys(x, y) ==
  {k \in DOMAIN pools :
     {pools[k].assets.tokenAccumulatedId, pools[k].assets.tokenSoldId} = {x, y}}

\* C22: the pool a request addresses does not depend on the order of its two
\* tokens: sell(X, Y), sell(Y, X), migrate(X, Y) and migrate(Y, X) resolve to
\* the record and the account of the pool createPool stored for the pair,
\* and a sell for a pair without a record fails with poolDoesNotExist in
\* either order.
C22_PoolAddressingIgnoresTokenOrder ==
  /\ \A x \in Tokens : \A y \in Tokens :
       PoolKey(TokenPair(x, y)) = PoolKey(TokenPair(y, x))
  /\ \A req \in {r \in SellRequests : r.amountOutMinLimit = 0} :
       LET rev == [req EXCEPT !.tokenIn = req.tokenOut, !.tokenOut = req.tokenIn]
           status == sellPathStatus(pools, feeCollected, balances, height, req)
           statusRev == sellPathStatus(pools, feeCollected, balances, height, rev)
       IN IF createdKeys(req.tokenIn, req.tokenOut) = {}
            THEN status = "poolDoesNotExist" /\ statusRev = "poolDoesNotExist"
            ELSE \A k \in createdKeys(req.tokenIn, req.tokenOut) :
                   LET v == sellPathValues(pools, feeCollected, balances, height, req)
                       vRev == sellPathValues(pools, feeCollected, balances, height, rev)
                   IN /\ status # "poolDoesNotExist" /\ statusRev # "poolDoesNotExist"
                      /\ v.initialPoolKey = k /\ vRev.initialPoolKey = k
                      /\ v.poolData = pools[k] /\ vRev.poolData = pools[k]
  /\ \A req \in MigrateRequests :
       LET rev == [req EXCEPT !.tokenAId = req.tokenBId, !.tokenBId = req.tokenAId]
           status == migratePoolStatus(pools, balances, height, req)
       IN /\ status = migratePoolStatus(pools, balances, height, rev)
          /\ IF createdKeys(req.tokenAId, req.tokenBId) = {}
               THEN status = "poolDoesNotExist"
               ELSE /\ status # "poolDoesNotExist"
                    /\ migratePool(state, req) = migratePool(state, rev)

\* a pool that was traded on and then migrated by a request that names its
\* tokens in the order opposite to the one of its creation
C22_Witness ==
  /\ last.method = "migratePool" /\ last.status = ok
  /\ sellCount > 0
  /\ \E k \in createdKeys(last.tokenA, last.tokenB) :
       /\ pools[k].assets.tokenAccumulatedId = last.tokenB
       /\ pools[k].assets.tokenSoldId = last.tokenA
       /\ getBalance(balances, last.tokenA, k) = 0
       /\ getBalance(balances, last.tokenA, PoolKeyXyk(TokenPair(last.tokenB, last.tokenA))) > 0

----------------------------------------------------------------------------
(* Migration *)

migrationsOfExistingPool ==
  {req \in MigrateRequests :
     poolExists(pools, PoolKey(TokenPair(req.tokenAId, req.tokenBId)))}

\* C23: a migratePool of an existing pool fails with poolNotEnd whenever the
\* block height is at most the pool's end: before the start, while the sale
\* runs and at exactly the end; it then changes no balance of the pool
\* account and none of the constant-product pool of the pair.
C23_MigrationBeforeEndFails ==
  \A req \in migrationsOfExistingPool :
    LET tokenPair == TokenPair(req.tokenAId, req.tokenBId)
        status == migratePoolStatus(pools, balances, height, req)
        kept == runtimeMethod(status, migratePool(state, req), state)
    IN height <= pools[PoolKey(tokenPair)].end =>
         /\ status = "poolNotEnd"
         /\ \A t \in Tokens :
              /\ getBalance(kept.balances, t, PoolKey(tokenPair))
                   = getBalance(balances, t, PoolKey(tokenPair))
              /\ getBalance(kept.balances, t, PoolKeyXyk(tokenPair))
                   = getBalance(balances, t, PoolKeyXyk(tokenPair))

\* a migration refused at exactly the end of the only pool, which holds both
\* tokens and has been traded on
C23_Witness ==
  /\ last.method = "migratePool" /\ last.status = "poolNotEnd"
  /\ sellCount > 0
  /\ Cardinality(DOMAIN pools) = 1
  /\ \A k \in DOMAIN pools :
       /\ height = pools[k].end
       /\ getBalance(balances, pools[k].assets.tokenAccumulatedId, k) > 0
       /\ getBalance(balances, pools[k].assets.tokenSoldId, k) > 0

migrated == last.method = "migratePool" /\ last.status = ok

\* C24: after a successful migratePool the pool account holds exactly 0 of
\* both tokens of the pool, and the constant-product pool account of the
\* same pair holds a positive amount of both, having received exactly what
\* the pool account held before.
C24_MigrationDrainsPoolAccount ==
  [][(last'.method = "migratePool" /\ last'.status = ok) =>
       LET tokenPair == TokenPair(last'.tokenA, last'.tokenB)
           lbpAccount == PoolKey(tokenPair)
           xykAccount == PoolKeyXyk(tokenPair)
       IN \A t \in {last'.tokenA, last'.tokenB} :
            /\ getBalance(balances', t, lbpAccount) = 0
            /\ getBalance(balances', t, xykAccount) > 0
            /\ getBalance(balances', t, xykAccount) - getBalance(balances, t, xykAccount)
                 = getBalance(balances, t, lbpAccount)
            /\ getBalance(balances, t, lbpAccount) > 0]_vars

\* a migration, after a sell, into a constant-product pool that already held
\* reserves of its own
C24_Witness ==
  /\ migrated
  /\ sellCount > 0
  /\ tokenIdExist(tokenIdList, LPTokenIdXyk(TokenPair(last.tokenA, last.tokenB)))
  /\ getBalance(balances, last.tokenA, PoolKey(TokenPair(last.tokenA, last.tokenB))) = 0
  /\ getBalance(balances, last.tokenB, PoolKey(TokenPair(last.tokenA, last.tokenB))) = 0
  /\ getBalance(balances, last.tokenA, PoolKeyXyk(TokenPair(last.tokenA, last.tokenB))) > 1
  /\ getBalance(balances, last.tokenB, PoolKeyXyk(TokenPair(last.tokenA, last.tokenB))) > 1

\* C25: at most one migratePool succeeds per pool: every migratePool of a
\* pool that has been migrated fails with poolEmpty, and so does the
\* migration of an ended pool whose account holds 0 of either token.
C25_AtMostOneMigrationPerPool ==
  \A req \in migrationsOfExistingPool :
    LET poolKey == PoolKey(TokenPair(req.tokenAId, req.tokenBId))
        status == migratePoolStatus(pools, balances, height, req)
    IN /\ poolKey \in migratedPools => status = "poolEmpty"
       /\ (/\ height > pools[poolKey].end
           /\ \/ getBalance(balances, req.tokenAId, poolKey) = 0
              \/ getBalance(balances, req.tokenBId, poolKey) = 0)
          => status = "poolEmpty"

\* a second migration of the only pool, refused
C25_Witness ==
  /\ last.method = "migratePool" /\ last.status = "poolEmpty"
  /\ Cardinality(DOMAIN pools) = 1
  /\ DOMAIN pools \subseteq migratedPools

\* the migration of an ended pool that a sell left without one of its tokens
C25_WitnessDrained ==
  /\ last.method = "migratePool" /\ last.status = "poolEmpty"
  /\ migratedPools = {}
  /\ sellCount > 0

----------------------------------------------------------------------------
(* Token registry *)

\* the token ids registered so far, read from the index -> token map
registered == {tokenIds[i] : i \in DOMAIN tokenIds}

\* C26: addTokenPair(a, b, isXyk, checkLbp) reports success iff, in the state
\* before the call, the XYK liquidity token of the pair is not registered and
\* not (checkLbp and the LBP liquidity token of the pair is registered); so
\* the creation of an XYK pool for a pair that has an LBP pool fails with
\* poolLbpAlreadyExists.
C26_AddTokenPairSuccess ==
  /\ LET before == registered
     IN \A a \in Tokens : \A b \in Tokens : \A isXyk \in BOOLEAN : \A checkLbp \in BOOLEAN :
          addTokenPairSuccess(tokenIdList, a, b, isXyk, checkLbp)
            <=> /\ LPTokenIdXyk(TokenPair(a, b)) \notin before
                /\ ~(checkLbp /\ LPTokenId(TokenPair(a, b)) \in before)
  /\ \A req \in XykRequests :
       (/\ req.tokenAId # req.tokenBId
        /\ poolExists(pools, PoolKey(TokenPair(req.tokenAId, req.tokenBId))))
       => /\ ~addTokenPairSuccess(tokenIdList, req.tokenAId, req.tokenBId, TRUE, TRUE)
          /\ xykCreatePoolStatus(tokenIdList, balances, req) = "poolLbpAlreadyExists"

\* the creation of an XYK pool refused because the pair has an LBP pool
C26_Witness ==
  /\ last.method = "xykCreatePool" /\ last.status = "poolLbpAlreadyExists"
  /\ pools # <<>>
  /\ \E p \in Pairs : LPTokenId(p) \in registered /\ LPTokenIdXyk(p) \notin registered

\* the last transaction called addTokenPair and the registry reported a
\* collision
collisionReported ==
  \/ last.method = "createPool" /\ ~last.registrySuccess
  \/ last.method = "xykCreatePool"
       /\ last.status \in {"poolAlreadyExists", "poolLbpAlreadyExists"}

\* the two maps of the registry are inverses of each other on 1..counter
registryMapsAreInverse ==
  /\ DOMAIN tokenIds = 1..lastTokenIdId
  /\ DOMAIN tokenIdList = registered
  /\ \A i \in DOMAIN tokenIds : tokenIdList[tokenIds[i]] = i
  /\ \A t \in DOMAIN tokenIdList : tokenIds[tokenIdList[t]] = t

\* the registry changes only by one new entry at index counter + 1
registryOnlyAppends ==
  \/ UNCHANGED <<lastTokenIdId, tokenIds, tokenIdList>>
  \/ /\ lastTokenIdId' = lastTokenIdId + 1
     /\ DOMAIN tokenIds' = DOMAIN tokenIds \cup {lastTokenIdId + 1}
     /\ \A i \in DOMAIN tokenIds : tokenIds'[i] = tokenIds[i]
     /\ tokenIds'[lastTokenIdId + 1] \notin DOMAIN tokenIdList
     /\ DOMAIN tokenIdList' = DOMAIN tokenIdList \cup {tokenIds'[lastTokenIdId + 1]}
     /\ \A t \in DOMAIN tokenIdList : tokenIdList'[t] = tokenIdList[t]

\* C27: the registry never overwrites an entry and its counter counts the
\* successful registrations: a registration stores the token id at index
\* counter + 1, a registration that reports a collision leaves the counter
\* and both maps unchanged, and the two maps are inverses of each other on
\* 1..counter in every reachable state.
C27_RegistryCountsSuccessfulRegistrations ==
  [][/\ registryOnlyAppends
     /\ registryMapsAreInverse'
     /\ collisionReported' => UNCHANGED <<lastTokenIdId, tokenIds, tokenIdList>>]_vars

----------------------------------------------------------------------------
(* The fee ledger *)

\* C29: a fee-collected entry never decreases; a successful sell adds to the
\* entry of the pool's (feeCollector, accumulating asset) exactly the fee of
\* the sell, which is the amount of the accumulating asset the sell moves to
\* the fee collector; nothing else changes an entry after the creation of
\* the pool set it to 0.
C29_FeeCollectedGrowsByFees ==
  [][/\ \A key \in DOMAIN feeCollected :
          key \in DOMAIN feeCollected' /\ feeCollected'[key] >= feeCollected[key]
     /\ \A key \in DOMAIN feeCollected' :
          key \notin DOMAIN feeCollected =>
            /\ feeCollected'[key] = 0
            /\ last'.method = "createPool" /\ last'.status = ok
            /\ key = FeeCollectorAssetKey(
                       pools'[PoolKey(TokenPair(last'.tokenA, last'.tokenB))].feeCollector,
                       last'.tokenA)
     /\ IF last'.method = "sellPath" /\ last'.status = ok
          THEN LET pool == pools[PoolKey(TokenPair(last'.tokenA, last'.tokenB))]
                   acc == pool.assets.tokenAccumulatedId
                   key == FeeCollectorAssetKey(pool.feeCollector, acc)
               IN /\ key \in DOMAIN feeCollected
                  /\ feeCollected'[key] = feeCollected[key] + last'.feeAmount
                  /\ getBalance(balances', acc, pool.feeCollector)
                       - getBalance(balances, acc, pool.feeCollector) = last'.feeAmount
                  /\ \A other \in DOMAIN feeCollected :
                       other # key => feeCollected'[other] = feeCollected[other]
          ELSE \A key \in DOMAIN feeCollected : feeCollected'[key] = feeCollected[key]]_vars

\* a second sell with a positive fee on a pool that had collected fees
C29_Witness ==
  /\ sold
  /\ last.currentCollected > 0
  /\ last.feeAmount > 0
  /\ collectedOf(feeCollected, soldPool) = last.currentCollected + last.feeAmount
  /\ getBalance(balances, soldPool.assets.tokenAccumulatedId, soldPool.feeCollector)
       = collectedOf(feeCollected, soldPool)

----------------------------------------------------------------------------
(* The price curve *)

\* C30: calculateTokenOutAmount returns
\* floor(floor(amountIn * reserveOut / (reserveIn + amountIn)) * w / (MAX_WEIGHT - w)),
\* where the reserves are the balances of the pool account and w is
\* calculateLinearWeight(start, end, wIn, wOut, now) with (wIn, wOut) =
\* (initialWeight, finalWeight) when tokenIn is the accumulating asset and
\* (finalWeight, initialWeight) otherwise.
C30_TokenOutAmountFormula ==
  \A req \in sellsOnExistingPool :
    LET poolKey == PoolKey(TokenPair(req.tokenIn, req.tokenOut))
        poolData == pools[poolKey]
        reserveIn == getBalance(balances, req.tokenIn, poolKey)
        reserveOut == getBalance(balances, req.tokenOut, poolKey)
        accumulatingIn == req.tokenIn = poolData.assets.tokenAccumulatedId
        w == IF accumulatingIn
               THEN calculateLinearWeight(poolData.start, poolData.end,
                      poolData.initialWeight, poolData.finalWeight, height)
               ELSE calculateLinearWeight(poolData.start, poolData.end,
                      poolData.finalWeight, poolData.initialWeight, height)
    IN isPoolRunning(poolData, height) =>
         /\ calculateTokenOutAmountStatus(balances, height, req.tokenIn, req.tokenOut,
                                          req.amountIn, poolData) = ok
         /\ calculateTokenOutAmount(balances, height, req.tokenIn, req.tokenOut,
                                    req.amountIn, poolData)
              = (((req.amountIn * reserveOut) \div (reserveIn + req.amountIn)) * w)
                  \div (100000000 - w)

\* a successful sell of the sold asset whose output is positive and differs
\* from the one a single rounding of the whole quotient would give
C30_Witness ==
  /\ sold
  /\ ~soldFeeOnIn
  /\ last.calculatedAmountOut > 0
  /\ \E rIn \in 1..(3 * InitialDrip) : \E rOut \in 1..(3 * InitialDrip) :
     \E w \in {20, 50, 80} :
       /\ getBalance(balances, last.tokenA, soldPoolKey) = rIn + last.amountIn
       /\ getBalance(balances, last.tokenB, soldPoolKey) = rOut - last.calculatedAmountOut
       /\ last.calculatedAmountOut
            = (((last.amountIn * rOut) \div (rIn + last.amountIn)) * w) \div (100 - w)
       /\ last.calculatedAmountOut
            # (last.amountIn * rOut * w) \div ((rIn + last.amountIn) * (100 - w))

----------------------------------------------------------------------------
(* Weights of a stored pool *)

\* the weight of the token coming in at a height, for both directions of a sell
currentWeights(poolData, now) ==
  {calculateLinearWeight(poolData.start, poolData.end,
                         poolData.initialWeight, poolData.finalWeight, now),
   calculateLinearWeight(poolData.start, poolData.end,
                         poolData.finalWeight, poolData.initialWeight, now)}

\* windows and valid weights a pool can be stored with, the extreme weights
\* included
WindowEnds == 0..3
ValidWeights == {2000000, 20000000, 80000000, 99999999}

\* the weight is between its two end values all over every such window
weightBetweenEnds ==
  \A s \in WindowEnds : \A e \in WindowEnds : \A y1 \in ValidWeights : \A y2 \in ValidWeights :
    \A now \in s..e :
      s < e =>
        LET w == calculateLinearWeight(s, e, y1, y2, now)
        IN /\ calculateLinearWeightStatus(s, e, y1, y2, now) = ok
           /\ (IF y1 < y2 THEN y1 ELSE y2) <= w
           /\ w <= (IF y1 < y2 THEN y2 ELSE y1)

\* C31: for every stored pool and every height in [start, end] the current
\* linear weight lies between the smaller and the larger of initialWeight
\* and finalWeight, hence in [MAX_WEIGHT / 50, MAX_WEIGHT): MAX_WEIGHT - weight
\* is strictly positive and the weight division of a sell on a running pool
\* neither divides by zero nor underflows.
C31_CurrentWeightWithinEndWeights ==
  [](
    /\ weightBetweenEnds
    /\ \A k \in DOMAIN pools : \A now \in 0..MaxHeight :
         isPoolRunning(pools[k], now) =>
           LET lo == IF pools[k].initialWeight < pools[k].finalWeight
                       THEN pools[k].initialWeight ELSE pools[k].finalWeight
               hi == IF pools[k].initialWeight < pools[k].finalWeight
                       THEN pools[k].finalWeight ELSE pools[k].initialWeight
           IN \A w \in currentWeights(pools[k], now) :
                /\ lo <= w /\ w <= hi
                /\ 2000000 <= w /\ w < 100000000
                /\ 100000000 - w > 0
    /\ \A req \in sellsOnExistingPool :
         LET poolData == pools[PoolKey(TokenPair(req.tokenIn, req.tokenOut))]
         IN isPoolRunning(poolData, height) =>
              calculateTokenOutAmountStatus(balances, height, req.tokenIn, req.tokenOut,
                                            req.amountIn, poolData)
                \notin {"underflow", "division by zero", "SaleIsNotRunning"})

\* a pool inside its window whose current weight is strictly between its
\* initial and its final weight
C31_Witness ==
  \E k \in DOMAIN pools :
    /\ pools[k].start < height /\ height < pools[k].end
    /\ \A w \in currentWeights(pools[k], height) :
         pools[k].finalWeight < w /\ w < pools[k].initialWeight

----------------------------------------------------------------------------
(* Pools with little or no liquidity: createPool accepts any amounts the    *)
(* creator holds, zero included, and sellPath any amountIn.                 *)

ThinAmounts == {0, 1, InitialDrip}

ThinCreateRequests ==
  {[BaseCreate EXCEPT !.tokenAAmount = a, !.tokenBAmount = b] :
     a \in ThinAmounts, b \in ThinAmounts}

ThinSellRequests ==
  {[seller |-> s, tokenIn |-> io[1], tokenOut |-> io[2],
    amountIn |-> a, amountOutMinLimit |-> 0] :
      s \in Sellers, io \in {<<0, 1>>, <<1, 0>>}, a \in {0, 1, 4}}

createPoolThin == \E req \in ThinCreateRequests : createPoolTx(req)

sellPathThin == \E req \in ThinSellRequests : sellPathTx(req)

NextThin ==
  \/ createPoolThin
  \/ sellPathThin
  \/ produceBlock

SpecThin == Init /\ [][NextThin]_vars

\* C32: the zero-denominator failure is unreachable through the public entry
\* points: no sell on a pool created by createPool, at any height and with
\* any amountIn, fails with "denominator is zero".
C32_DenominatorIsZeroUnreachable ==
  last.method = "sellPath" => last.status # "denominator is zero"

----------------------------------------------------------------------------
(* Reserves of a pool *)

\* C33: for every running pool and every amountIn the value computed by
\* calculateTokenOutAmount does not exceed the pool account's reserve of
\* tokenOut, so what a sell takes out of the pool account, the payout and
\* the fee charged on it, never exceeds that reserve.
C33_OutputWithinReserve ==
  \A req \in sellsOnExistingPool :
    LET poolKey == PoolKey(TokenPair(req.tokenIn, req.tokenOut))
        poolData == pools[poolKey]
        reserveOut == getBalance(balances, req.tokenOut, poolKey)
        v == sellPathValues(pools, feeCollected, balances, height, req)
        paidByPool == v.amountOut + (IF v.feePayer = poolKey THEN v.feeAmount ELSE 0)
    IN (/\ isPoolRunning(poolData, height)
        /\ calculateTokenOutAmountStatus(balances, height, req.tokenIn, req.tokenOut,
                                         req.amountIn, poolData) = ok)
       => /\ v.calculatedAmountOut <= reserveOut
          /\ v.amountOut >= 0 => paidByPool <= reserveOut

----------------------------------------------------------------------------
(* Fees of a stored pool *)

\* C34: for every pool stored by createPool and every amount, the fee is at
\* most the amount under the boosted and under the configured schedule, so
\* that the subtraction of the fee from the amount in a sell does not
\* underflow.
C34_FeeAtMostAmount ==
  \A k \in DOMAIN pools : \A amount \in 0..MaxProbeAmount :
    /\ calculatePoolTradeFee(amount, defaultRepayFee.fee0, defaultRepayFee.fee1) <= amount
    /\ calculatePoolTradeFee(amount, pools[k].fee.fee0, pools[k].fee.fee1) <= amount
    /\ calculateFees(feeCollected, pools[k], amount) <= amount

----------------------------------------------------------------------------
(* Conservation *)

RECURSIVE sumOver(_, _, _)
\* the sum of the balances of a token over a set of accounts
sumOver(bal, tokenId, accounts) ==
  IF accounts = {} THEN 0
  ELSE LET a == CHOOSE x \in accounts : TRUE
       IN getBalance(bal, tokenId, a) + sumOver(bal, tokenId, accounts \ {a})

----------------------------------------------------------------------------
(* Order of the creation checks *)

\* the error of the first creation check a request violates, in the order
\* tokens distinct, pool absent, fee collector and asset unused, block range,
\* duration, weights, fee; "ok" if it violates none
firstViolatedCheck(ps, fc, now, req) ==
  IF req.tokenAId = req.tokenBId THEN "tokensNotDistinct"
  ELSE IF poolExists(ps, PoolKey(TokenPair(req.tokenAId, req.tokenBId)))
    THEN "poolAlreadyExists"
  ELSE IF feeCollectedExists(fc, FeeCollectorAssetKey(req.feeCollector, req.tokenAId))
    THEN "feeCollectorWithAssetAlreadyUsed"
  ELSE IF now >= req.start THEN "InvalidBlockRange"
  ELSE IF req.start >= req.end THEN "InvalidBlockRange"
  ELSE IF req.end - req.start > MAX_SALE_DURATION THEN "MaxSaleDurationExceeded"
  ELSE IF ~isValidWeight(req.initialWeight) \/ ~isValidWeight(req.finalWeight)
    THEN "InvalidWeight"
  ELSE IF req.fee.fee1 <= 0 THEN "FeeAmountInvalid"
  ELSE ok

\* C36: a createPool that violates several creation checks reports the
\* error of the first violated check in the fixed order TokensNotDistinct,
\* PoolAlreadyExists, FeeCollectorAssetInUse, InvalidBlockRange (now >= start,
\* then start >= end), MaxSaleDurationExceeded, InvalidWeight, InvalidFee.
C36_FirstViolatedCheckIsReported ==
  \A req \in CreateRequests :
    firstViolatedCheck(pools, feeCollected, height, req) # ok
      => createPoolStatus(pools, feeCollected, balances, height, req)
           = firstViolatedCheck(pools, feeCollected, height, req)

----------------------------------------------------------------------------
(* Life of a pool *)

\* 0 before the start of the sale, 1 while it runs, 2 after its end
phase(poolData, now) ==
  IF now < poolData.start THEN 0 ELSE IF now <= poolData.end THEN 1 ELSE 2

\* the sells and the migrations a state accepts for the pool of a pair
acceptedSells(pair) ==
  {req \in SellRequests :
     /\ TokenPair(req.tokenIn, req.tokenOut) = pair
     /\ sellPathStatus(pools, feeCollected, balances, height, req) = ok}

acceptedMigrations(pair) ==
  {req \in MigrateRequests :
     /\ TokenPair(req.tokenAId, req.tokenBId) = pair
     /\ migratePoolStatus(pools, balances, height, req) = ok}

\* C37: the block height never decreases, so a pool is not started, then
\* running, then ended, in that order and without return; a sell succeeds
\* only while its pool is running, hence never once the height exceeds end;
\* sell and migrate are never both accepted for the same pool at the same
\* height; and no sell succeeds on a pool after it has been migrated.
C37_PoolLifeIsOneWay ==
  /\ [](\A pair \in DistinctPairs :
          acceptedMigrations(pair) # {} => acceptedSells(pair) = {})
  /\ [][/\ height' >= height
        /\ \A k \in DOMAIN pools :
             /\ k \in DOMAIN pools'
             /\ phase(pools'[k], height') >= phase(pools[k], height)
        /\ (last'.method = "sellPath" /\ last'.status = ok) =>
             LET k == PoolKey(TokenPair(last'.tokenA, last'.tokenB))
             IN /\ phase(pools[k], height) = 1
                /\ k \notin migratedPools]_vars

\* a sell refused after the end of the only pool, which was sold on while
\* it ran and has been migrated
C37_Witness ==
  /\ last.method = "sellPath" /\ last.status = "SaleIsNotRunning"
  /\ Cardinality(DOMAIN pools) = 1
  /\ DOMAIN pools \subseteq migratedPools
  /\ sellCount > 0
  /\ \A k \in DOMAIN pools : phase(pools[k], height) = 2

----------------------------------------------------------------------------
(* Direct calls of calculateAmountInFromReserves *)

InitAmountIn ==
  /\ Init!1 /\ Init!2 /\ Init!3 /\ Init!4 /\ Init!5 /\ Init!6 /\ Init!7 /\ Init!8
  /\ Init!9 /\ Init!11
  /\ probe \in {[method |-> "calculateAmountInFromReserves",
                 args |-> <<reserveIn, reserveOut, amountOut>>,
                 status |-> "pending", result |-> 0] :
                  reserveIn \in 0..MaxProbeReserve, reserveOut \in 0..MaxProbeReserve,
                  amountOut \in 0..(MaxProbeReserve + 1)}

\* the value is the one the call computes when no assertion fails, 0 otherwise
callCalculateAmountInFromReserves ==
  /\ probe.method = "calculateAmountInFromReserves"
  /\ probe.status = "pending"
  /\ LET status == calculateAmountInFromReservesStatus(probe.args[1], probe.args[2],
                                                       probe.args[3])
     IN probe' = [probe EXCEPT !.status = status,
                    !.result = IF status = ok
                                 THEN calculateAmountInFromReserves(probe.args[1],
                                        probe.args[2], probe.args[3])
                                 ELSE 0]
  /\ UNCHANGED <<height, chain, sellCount, migratedPools, last>>

NextAmountIn == callCalculateAmountInFromReserves

SpecAmountIn == InitAmountIn /\ [][NextAmountIn]_vars

amountInCalled ==
  probe.method = "calculateAmountInFromReserves" /\ probe.status # "pending"

\* C38: calculateAmountInFromReserves(reserveIn, reserveOut, amountOut)
\* returns floor(reserveIn * amountOut / (reserveOut - amountOut)) when
\* amountOut < reserveOut and fails when amountOut >= reserveOut; and for
\* x > 0 and out = floor(x * reserveOut / (reserveIn + x)) < reserveOut the
\* input it quotes for out is at most x.
C38_AmountInInvertsConstantProduct ==
  amountInCalled =>
    LET reserveIn == probe.args[1]
        reserveOut == probe.args[2]
        amountOut == probe.args[3]
    IN /\ amountOut < reserveOut =>
            /\ probe.status = ok
            /\ probe.result = (reserveIn * amountOut) \div (reserveOut - amountOut)
            /\ \A x \in 1..(2 * MaxProbeReserve) :
                 (x * reserveOut) \div (reserveIn + x) = amountOut => probe.result <= x
       /\ amountOut >= reserveOut => probe.status # ok

\* a quote for the output of a sale of x that is positive and below x
C38_Witness ==
  /\ amountInCalled /\ probe.status = ok
  /\ probe.result > 0
  /\ \E x \in 1..(2 * MaxProbeReserve) :
       /\ (x * probe.args[2]) \div (probe.args[1] + x) = probe.args[3]
       /\ probe.result < x

\* the two ways the call fails
C38_WitnessFails ==
  /\ amountInCalled
  /\ \/ probe.status = "denominator is zero" /\ probe.args[3] = probe.args[2]
     \/ probe.status = "underflow" /\ probe.args[3] > probe.args[2]

----------------------------------------------------------------------------
(* Two creations for one pair *)

\* the creation requests, sent by either funded user
ConcurrentCreates ==
  {[req EXCEPT !.creator = c] : req \in CreateRequests, c \in Funded}

\* the requests for a pair that succeed if they are run in the current state
validCreates(pair) ==
  {r \in ConcurrentCreates :
     /\ TokenPair(r.tokenAId, r.tokenBId) = pair
     /\ createPoolStatus(pools, feeCollected, balances, height, r) = ok}

\* C39: requests are run one at a time; of two otherwise valid createPool
\* requests for the same unordered pair, from the same or from different
\* creators and in either order of admission, the first admitted succeeds,
\* the other fails with poolAlreadyExists, and the state after both is the
\* state after the first alone.
C39_FirstOfTwoCreatesWins ==
  [][(last'.method = "createPool" /\ last'.status = ok) =>
       LET pair == TokenPair(last'.tokenA, last'.tokenB)
       IN /\ \E r1 \in validCreates(pair) : state' = createPool(state, r1)
          /\ \A r1 \in validCreates(pair) : \A r2 \in validCreates(pair) :
               LET first == createPool(state, r1)
                   status == createPoolStatus(first.pools, first.feeCollected,
                                              first.balances, height, r2)
               IN /\ status = "poolAlreadyExists"
                  /\ runtimeMethod(status, createPool(first, r2), first) = first]_vars

\* a creation refused with poolAlreadyExists in the block in which the pool
\* of its pair was created
C39_Witness ==
  /\ height = 0
  /\ last.method = "createPool" /\ last.status = "poolAlreadyExists"
  /\ pools # <<>>

----------------------------------------------------------------------------
(* What a pool record comes with *)

\* the liquidity token of the pool's pair is registered and the fee ledger
\* has the entry of the pool's fee collector and accumulating asset
recordIsBacked(poolData) ==
  /\ tokenIdExist(tokenIdList,
                  LPTokenId(TokenPair(poolData.assets.tokenAccumulatedId,
                                      poolData.assets.tokenSoldId)))
  /\ feeCollectedExists(feeCollected,
                        FeeCollectorAssetKey(poolData.feeCollector,
                                             poolData.assets.tokenAccumulatedId))

\* C40: in every reachable state each record of the pool store has its
\* pair's LBP liquidity-token id registered in the token registry and has a
\* fee-collected entry for its fee collector and accumulating asset; no
\* registration, no fee-collected entry and no record is ever removed.
C40_PoolRecordsAreBacked ==
  /\ [](\A k \in DOMAIN pools : recordIsBacked(pools[k]))
  /\ [][/\ DOMAIN tokenIdList \subseteq DOMAIN tokenIdList'
        /\ DOMAIN feeCollected \subseteq DOMAIN feeCollected'
        /\ DOMAIN pools \subseteq DOMAIN pools']_vars

\* a pool created for a pair whose XYK liquidity token was registered
\* before, after a sale with a fee and its migration
C40_Witness ==
  \E k \in DOMAIN pools :
    /\ k \in migratedPools
    /\ recordIsBacked(pools[k])
    /\ collectedOf(feeCollected, pools[k]) > 0
    /\ tokenIdExist(tokenIdList,
                    LPTokenIdXyk(TokenPair(pools[k].assets.tokenAccumulatedId,
                                           pools[k].assets.tokenSoldId)))
    /\ tokenIdList[LPTokenIdXyk(TokenPair(pools[k].assets.tokenAccumulatedId,
                                          pools[k].assets.tokenSoldId))]
         < tokenIdList[k]
====
